---- MODULE Spec2Model ----
\* Content-moderation poll adapter of the Media Insights Engine
\* (source/operators/rekognition/check_content_moderation_status.py),
\* modelled as one Lambda process that serves a sequence of invocations.
\* The module-level output_object lives as long as the process does; the
\* remote Rekognition service and the dataplane answer nondeterministically.
EXTENDS Integers, Sequences, FiniteSets, TLC

\* ---------------------------------------------------------------- bounds
MaxPages == 3          \* most queries one invocation can make
MaxInvocations == 2    \* invocations served by one process

\* ------------------------------------------------------- value universes
AssetIds == {"a1", "a2"}
JobIds == {"j1", "j2"}
WorkflowIds == {"w1"}
EventStatuses == {"Executing", "Complete"}
Tokens == {"t1", "t2"}
Payloads == {"L1"}
StatusMessages == {"m1", "m2"}
OtherJobStatuses == {"UNKNOWN"}

operator_name == "contentModeration"

EmptyDict == <<>>

\* Python: k in d
Has(d, k) == k \in DOMAIN d

\* ------------------------------------------------------------ input events
InputKeys == {"AssetId", "ContentModerationJobId", "WorkflowExecutionId"}

InputValues(k) ==
    CASE k = "AssetId" -> AssetIds
      [] k = "ContentModerationJobId" -> JobIds
      [] k = "WorkflowExecutionId" -> WorkflowIds

InputMetaDatas ==
    UNION { { f \in [K -> AssetIds \cup JobIds \cup WorkflowIds] :
                \A k \in K : f[k] \in InputValues(k) } : K \in SUBSET InputKeys }

\* The event of an orchestrator that passes on a job it has recorded as
\* failed.
FailedJobEvents ==
    { [Status |-> "Error",
       MetaData |-> [AssetId |-> "a1", ContentModerationJobId |-> "j1",
                     WorkflowExecutionId |-> "w1"]] }

\* Every combination of a present or absent Status and MetaData, and the
\* event of a failed job.
Events ==
    { sp @@ mp : sp \in {EmptyDict} \cup { [Status |-> s] : s \in EventStatuses },
                 mp \in {EmptyDict} \cup { [MetaData |-> m] : m \in InputMetaDatas } }
    \cup FailedJobEvents

\* ------------------------------------------------- remote service answers
Responses ==
    { [JobStatus |-> "IN_PROGRESS"] }
    \cup { [JobStatus |-> "FAILED", StatusMessage |-> m] : m \in StatusMessages }
    \cup { [JobStatus |-> "SUCCEEDED", ModerationLabels |-> p, NextToken |-> t] :
             p \in Payloads, t \in Tokens }
    \cup { [JobStatus |-> "SUCCEEDED", ModerationLabels |-> p] : p \in Payloads }
    \cup { [JobStatus |-> s] : s \in OtherJobStatuses }

Uploads ==
    { EmptyDict, [Status |-> "Success"], [Status |-> "Failed"], [Status |-> "Unknown"] }

\* ------------------------------------------------------------- the state
VARIABLES
    pc,               \* "idle", "poll", "store_page", "store_last"
    output_object,    \* module-level OutputHelper: [status, metadata]
    event,            \* input of the current (or last) invocation
    asset_id, job_id, workflow_id,
    pagination_token, is_paginated,
    response,         \* the remote response being handled
    queries,          \* get_content_moderation calls of this invocation
    responses,        \* responses received in this invocation
    writes,           \* store_asset_metadata calls of this invocation
    uploads,          \* what the store returned for them
    result,           \* how the invocation ended: [kind, output]
    previous,         \* result of the invocation before this one
    invocations,      \* invocations started in this process
    observed,         \* what the invocation before this one was answered,
                      \* recorded only when two invocations are compared
    lookup,           \* the last invocation of the generic data lookup
    logger            \* the last invocation of the anonymous data logger

vars == << pc, output_object, event, asset_id, job_id, workflow_id,
           pagination_token, is_paginated, response, queries, responses,
           writes, uploads, result, previous, invocations, observed,
           lookup, logger >>

\* The state of the other Lambda functions, which the poll adapter never
\* touches.
others == << lookup, logger >>

\* The state of the poll adapter, which the other functions never touch.
adapter == << pc, output_object, event, asset_id, job_id, workflow_id,
              pagination_token, is_paginated, response, queries, responses,
              writes, uploads, result, previous, invocations, observed >>

\* ---------------------------------------------------------- OutputHelper
update_workflow_status(o, status) == [o EXCEPT !.status = status]

add_workflow_metadata(o, kv) == [o EXCEPT !.metadata = kv @@ o.metadata]

return_output_object(o) ==
    [Name |-> operator_name, Status |-> o.status, MetaData |-> o.metadata,
     Media |-> EmptyDict]

\* ------------------------------------------------------ message formatting
KeyRepr(k) ==
    CASE k = "Status" -> "'Status'"
      [] k = "MetaData" -> "'MetaData'"
      [] k = "AssetId" -> "'AssetId'"
      [] k = "ContentModerationJobId" -> "'ContentModerationJobId'"
      [] k = "WorkflowExecutionId" -> "'WorkflowExecutionId'"

MissingKeyMessage(k) == << "Missing key ", KeyRepr(k) >>

MissingMetadataKeyMessage(k) == << "Missing a required metadata key ", KeyRepr(k) >>

UploadErrorMessage(asset) == << "Unable to upload metadata for asset: ", asset >>

UploadNoStatusMessage(asset, upload) ==
    << "Unable to upload metadata for ", asset, ": ", upload >>

UnknownStatusMessage == << "Unable to determine status" >>

\* Variant: the remote message is dropped.
FailedMessage_Generic(resp) == << "Unable to determine status" >>

\* line 63: str(response["StatusMessage"])
FailedMessage(resp) == << resp.StatusMessage >>

\* --------------------------------------------------------- input checking
\* Variant: the job id is looked up together with the asset id, before the
\* status is compared.
FirstKeyError_JobIdFirst(e) ==
    IF ~Has(e, "Status") THEN "Status"
    ELSE IF ~Has(e, "MetaData") THEN "MetaData"
    ELSE IF ~Has(e.MetaData, "AssetId") THEN "AssetId"
    ELSE IF ~Has(e.MetaData, "ContentModerationJobId") THEN "ContentModerationJobId"
    ELSE ""

\* The KeyError of lines 29-30, or "" when both lookups succeed.
FirstKeyError(e) ==
    IF ~Has(e, "Status") THEN "Status"
    ELSE IF ~Has(e, "MetaData") THEN "MetaData"
    ELSE IF ~Has(e.MetaData, "AssetId") THEN "AssetId"
    ELSE ""

\* The KeyError of lines 40-41, or "" when both lookups succeed.
SecondKeyError(e) ==
    IF ~Has(e.MetaData, "ContentModerationJobId") THEN "ContentModerationJobId"
    ELSE IF ~Has(e.MetaData, "WorkflowExecutionId") THEN "WorkflowExecutionId"
    ELSE ""

\* Variant: any non-empty status counts as already set.
AlreadyComplete_Truthy(e) == e.Status # ""

\* line 36
AlreadyComplete(e) == e.Status = "Complete"

\* ------------------------------------------------------------ invocation
NoResult == [kind |-> "none", output |-> EmptyDict]

Returned(o) == [kind |-> "return", output |-> return_output_object(o)]

Raised(o) == [kind |-> "raise", output |-> return_output_object(o)]

Escaped == [kind |-> "exception", output |-> EmptyDict]

\* What the orchestrator passes on when it feeds an output back as an event.
FeedBack(out) == [Status |-> out.Status, MetaData |-> out.MetaData]

NextEvents ==
    Events \cup (IF result.kind = "return" THEN {FeedBack(result.output)} ELSE {})

NothingObserved == [responses |-> << >>, uploads |-> << >>, pages |-> << >>]

\* No invocation of the generic data lookup has been made.
NoLookup ==
    [pc |-> "idle", event |-> EmptyDict, bucket |-> "", key |-> << >>,
     asset_id |-> "", workflow_id |-> "", metadata_filename |-> << >>,
     metadata_json |-> EmptyDict,
     operator_object |-> [status |-> "", metadata |-> EmptyDict],
     reads |-> << >>, fetched |-> [kind |-> "none", body |-> ""],
     writes |-> << >>, uploads |-> << >>, result |-> NoResult]

\* No invocation of the anonymous data logger has been made.
NoLogging ==
    [handled |-> FALSE, event |-> EmptyDict, send_raised |-> FALSE,
     metrics |-> << >>, responses |-> << >>]

Init ==
    /\ pc = "idle"
    /\ output_object = [status |-> "", metadata |-> EmptyDict]
    /\ event = EmptyDict
    /\ asset_id = ""
    /\ job_id = ""
    /\ workflow_id = ""
    /\ pagination_token = ""
    /\ is_paginated = FALSE
    /\ response = EmptyDict
    /\ queries = << >>
    /\ responses = << >>
    /\ writes = << >>
    /\ uploads = << >>
    /\ result = NoResult
    /\ previous = NoResult
    /\ invocations = 0
    /\ observed = NothingObserved
    /\ lookup = NoLookup
    /\ logger = NoLogging

\* Entering lambda_handler: a new event, fresh locals, fresh call records.
Enter(e) ==
    /\ pc = "idle"
    /\ invocations < MaxInvocations
    /\ invocations' = invocations + 1
    /\ event' = e
    /\ previous' = result
    /\ queries' = << >>
    /\ responses' = << >>
    /\ writes' = << >>
    /\ uploads' = << >>
    /\ UNCHANGED others

\* The locals of lambda_handler go out of scope when it is left.
DropLocals ==
    /\ asset_id' = ""
    /\ job_id' = ""
    /\ workflow_id' = ""
    /\ pagination_token' = ""
    /\ is_paginated' = FALSE
    /\ response' = EmptyDict

\* Leaving lambda_handler with the output object o, returned or raised.
Finish(o, res) ==
    /\ output_object' = o
    /\ result' = res
    /\ pc' = "idle"
    /\ DropLocals

\* Leaving lambda_handler by an exception that nothing in it catches.
Escape ==
    /\ result' = Escaped
    /\ pc' = "idle"
    /\ DropLocals
    /\ UNCHANGED output_object

\* lines 28-34
InvokeMissingKey(e) ==
    /\ Enter(e)
    /\ FirstKeyError(e) # ""
    /\ LET o == add_workflow_metadata(update_workflow_status(output_object, "Error"),
                  [ContentModerationError |-> MissingKeyMessage(FirstKeyError(e))])
       IN Finish(o, Raised(o))

\* lines 35-38
InvokeAlreadyComplete(e) ==
    /\ Enter(e)
    /\ FirstKeyError(e) = ""
    /\ AlreadyComplete(e)
    /\ LET o == update_workflow_status(output_object, "Complete")
       IN Finish(o, Returned(o))

\* lines 39-45
InvokeMissingMetadataKey(e) ==
    /\ Enter(e)
    /\ FirstKeyError(e) = ""
    /\ ~AlreadyComplete(e)
    /\ SecondKeyError(e) # ""
    /\ LET o == add_workflow_metadata(update_workflow_status(output_object, "Error"),
                  [ContentModerationError |->
                      MissingMetadataKeyMessage(SecondKeyError(e))])
       IN Finish(o, Raised(o))

\* lines 39-52: the input is valid, the pagination loop starts
InvokeStart(e) ==
    /\ Enter(e)
    /\ FirstKeyError(e) = ""
    /\ ~AlreadyComplete(e)
    /\ SecondKeyError(e) = ""
    /\ asset_id' = e.MetaData.AssetId
    /\ job_id' = e.MetaData.ContentModerationJobId
    /\ workflow_id' = e.MetaData.WorkflowExecutionId
    /\ pagination_token' = ""
    /\ is_paginated' = FALSE
    /\ response' = EmptyDict
    /\ pc' = "poll"
    /\ result' = NoResult
    /\ UNCHANGED output_object

\* ------------------------------------------------------- pagination loop
max_results == 1000

\* Variant: the IN_PROGRESS comparison never matches.
JobStatusBranch_NoInProgress(resp) ==
    IF resp.JobStatus = "FAILED" THEN "failed"
    ELSE IF resp.JobStatus = "SUCCEEDED" THEN "succeeded"
    ELSE "unknown"

\* Variant: every status that is neither FAILED nor SUCCEEDED counts as
\* still running.
JobStatusBranch_ElseExecuting(resp) ==
    IF resp.JobStatus = "FAILED" THEN "failed"
    ELSE IF resp.JobStatus = "SUCCEEDED" THEN "succeeded"
    ELSE "executing"

\* The branch of lines 55-124 that a response takes.
JobStatusBranch(resp) ==
    IF resp.JobStatus = "IN_PROGRESS" THEN "executing"
    ELSE IF resp.JobStatus = "FAILED" THEN "failed"
    ELSE IF resp.JobStatus = "SUCCEEDED" THEN "succeeded"
    ELSE "unknown"

\* line 66
HasNextToken(resp) == Has(resp, "NextToken")

\* Variant: the cursor is not passed on, every query asks for the first page.
Request_NoCursor(job, token) ==
    [JobId |-> job, MaxResults |-> max_results, NextToken |-> ""]

\* line 54: the request of one call of rek.get_content_moderation
Request(job, token) ==
    [JobId |-> job, MaxResults |-> max_results, NextToken |-> token]

\* line 54: one call of rek.get_content_moderation, answered by resp.  A
\* result has at most MaxPages pages, so the last query gets no NextToken.
Query(resp) ==
    /\ pc = "poll"
    /\ HasNextToken(resp) => Len(queries) + 1 < MaxPages
    /\ queries' = Append(queries, Request(job_id, pagination_token))
    /\ responses' = Append(responses, resp)
    /\ UNCHANGED << event, writes, uploads, previous, invocations, observed,
                    others >>

\* line 54 when the client raises (throttling, expired token, ...): nothing
\* in lambda_handler catches it.
PollRaises ==
    /\ pc = "poll"
    /\ queries' = Append(queries, Request(job_id, pagination_token))
    /\ Escape
    /\ UNCHANGED << event, responses, writes, uploads, previous, invocations,
                    observed, others >>

\* Variant: the workflow id is not recorded.
ExecutingMetaData_NoWorkflow(job, asset, workflow) ==
    [ContentModerationJobId |-> job, AssetId |-> asset]

\* line 58: the metadata recorded with status Executing
ExecutingMetaData(job, asset, workflow) ==
    [ContentModerationJobId |-> job, AssetId |-> asset,
     WorkflowExecutionId |-> workflow]

\* lines 55-59
PollInProgress(resp) ==
    /\ Query(resp)
    /\ JobStatusBranch(resp) = "executing"
    /\ LET o == add_workflow_metadata(
                  update_workflow_status(output_object, "Executing"),
                  ExecutingMetaData(job_id, asset_id, workflow_id))
       IN Finish(o, Returned(o))

\* lines 60-64
PollFailed(resp) ==
    /\ Query(resp)
    /\ JobStatusBranch(resp) = "failed"
    /\ LET o == add_workflow_metadata(
                  update_workflow_status(output_object, "Error"),
                  [ContentModerationJobId |-> job_id,
                   ContentModerationError |-> FailedMessage(resp)])
       IN Finish(o, Raised(o))

\* lines 65-68: a page that has a successor
PollSucceededPage(resp) ==
    /\ Query(resp)
    /\ JobStatusBranch(resp) = "succeeded"
    /\ HasNextToken(resp)
    /\ is_paginated' = TRUE
    /\ pagination_token' = resp.NextToken
    /\ response' = resp
    /\ pc' = "store_page"
    /\ UNCHANGED << output_object, asset_id, job_id, workflow_id, result >>

\* lines 65-66, 92-93: the last page
PollSucceededLast(resp) ==
    /\ Query(resp)
    /\ JobStatusBranch(resp) = "succeeded"
    /\ ~HasNextToken(resp)
    /\ response' = resp
    /\ pc' = "store_last"
    /\ UNCHANGED << output_object, asset_id, job_id, workflow_id,
                    pagination_token, is_paginated, result >>

\* lines 121-124
PollUnknown(resp) ==
    /\ Query(resp)
    /\ JobStatusBranch(resp) = "unknown"
    /\ LET o == add_workflow_metadata(
                  update_workflow_status(output_object, "Error"),
                  [ContentModerationError |-> UnknownStatusMessage])
       IN Finish(o, Raised(o))

\* -------------------------------------------------------- metadata writes
\* Variant: a missing Status defaults to Success.
UploadBranch_DefaultSuccess(upload) ==
    IF ~Has(upload, "Status") THEN "success"
    ELSE IF upload.Status = "Success" THEN "success"
    ELSE IF upload.Status = "Failed" THEN "failed"
    ELSE "other"

\* The branch of lines 71-91 and 99-120 that a store answer takes.
UploadBranch(upload) ==
    IF ~Has(upload, "Status") THEN "nostatus"
    ELSE IF upload.Status = "Success" THEN "success"
    ELSE IF upload.Status = "Failed" THEN "failed"
    ELSE "other"

\* line 70: the arguments of the write of a page that has a successor
PageWrite(asset, workflow, resp) ==
    [asset_id |-> asset, operator_name |-> operator_name,
     workflow_id |-> workflow, results |-> resp,
     paginate |-> "True", end |-> "False"]

\* Variant: the last page of a paginated result is written with end=False.
LastWrite_NeverFinal(asset, workflow, resp, paginated) ==
    IF paginated
    THEN [asset_id |-> asset, operator_name |-> operator_name,
          workflow_id |-> workflow, results |-> resp,
          paginate |-> "True", end |-> "False"]
    ELSE [asset_id |-> asset, operator_name |-> operator_name,
          workflow_id |-> workflow, results |-> resp,
          paginate |-> "unset", end |-> "unset"]

\* Variant: the write is addressed to the workflow id.
LastWrite_WorkflowAsAsset(asset, workflow, resp, paginated) ==
    IF paginated
    THEN [asset_id |-> workflow, operator_name |-> operator_name,
          workflow_id |-> workflow, results |-> resp,
          paginate |-> "True", end |-> "True"]
    ELSE [asset_id |-> workflow, operator_name |-> operator_name,
          workflow_id |-> workflow, results |-> resp,
          paginate |-> "unset", end |-> "unset"]

\* lines 95-98: the arguments of the write of the last page; a result of a
\* single page is written without the paginate and end arguments
LastWrite(asset, workflow, resp, paginated) ==
    IF paginated
    THEN [asset_id |-> asset, operator_name |-> operator_name,
          workflow_id |-> workflow, results |-> resp,
          paginate |-> "True", end |-> "True"]
    ELSE [asset_id |-> asset, operator_name |-> operator_name,
          workflow_id |-> workflow, results |-> resp,
          paginate |-> "unset", end |-> "unset"]

\* The output object after the write of a page with a successor (lines
\* 71-91); the Success branch leaves it alone.
PageStoreOutput(o, branch, asset, job) ==
    IF branch = "success" THEN o
    ELSE add_workflow_metadata(update_workflow_status(o, "Error"),
            [ContentModerationError |-> UploadErrorMessage(asset),
             ContentModerationJobId |-> job])

\* Variant: the loop goes on whatever the store answered.
PageStoreContinues_Always(branch) == branch \in {"nostatus", "success", "failed", "other"}

\* Variant: only an explicit Failed stops the loop.
PageStoreContinues_UnlessFailed(branch) == branch \in {"success", "other"}

\* line 78: the loop goes on only after a Success
PageStoreContinues(branch) == branch = "success"

\* lines 70-91
StorePage(upload) ==
    /\ pc = "store_page"
    /\ writes' = Append(writes, PageWrite(asset_id, workflow_id, response))
    /\ uploads' = Append(uploads, upload)
    /\ LET o == PageStoreOutput(output_object, UploadBranch(upload),
                                asset_id, job_id)
       IN IF PageStoreContinues(UploadBranch(upload))
          THEN /\ pc' = "poll"
               /\ UNCHANGED << output_object, result, asset_id, job_id,
                               workflow_id, pagination_token, is_paginated,
                               response >>
          ELSE Finish(o, Raised(o))
    /\ UNCHANGED << event, queries, responses, previous, invocations,
                    observed, others >>

\* Variant: after a successful write the status is set from the wrong
\* variable, the job id.
LastStoreOutput_StatusFromJob(o, branch, upload, asset, job) ==
    CASE branch = "nostatus" ->
           add_workflow_metadata(update_workflow_status(o, "Error"),
             [ContentModerationError |-> UploadNoStatusMessage(asset, upload)])
      [] branch = "success" ->
           update_workflow_status(
             add_workflow_metadata(o, [LabelDetectionJobId |-> job]),
             job)
      [] branch = "failed" ->
           add_workflow_metadata(update_workflow_status(o, "Error"),
             [ContentModerationError |-> UploadErrorMessage(asset)])
      [] branch = "other" ->
           add_workflow_metadata(
             add_workflow_metadata(update_workflow_status(o, "Error"),
               [ContentModerationError |-> UploadErrorMessage(asset)]),
             [PersonTrackingJobId |-> job])

\* The output object after the write of the last page (lines 99-120).
LastStoreOutput(o, branch, upload, asset, job) ==
    CASE branch = "nostatus" ->
           add_workflow_metadata(update_workflow_status(o, "Error"),
             [ContentModerationError |-> UploadNoStatusMessage(asset, upload)])
      [] branch = "success" ->
           update_workflow_status(
             add_workflow_metadata(o, [LabelDetectionJobId |-> job]),
             "Complete")
      [] branch = "failed" ->
           add_workflow_metadata(update_workflow_status(o, "Error"),
             [ContentModerationError |-> UploadErrorMessage(asset)])
      [] branch = "other" ->
           add_workflow_metadata(
             add_workflow_metadata(update_workflow_status(o, "Error"),
               [ContentModerationError |-> UploadErrorMessage(asset)]),
             [PersonTrackingJobId |-> job])

\* lines 105-109: only a Success is returned, everything else is raised
LastStoreReturns(branch) == branch = "success"

\* lines 93-120
StoreLast(upload) ==
    /\ pc = "store_last"
    /\ writes' = Append(writes,
                   LastWrite(asset_id, workflow_id, response, is_paginated))
    /\ uploads' = Append(uploads, upload)
    /\ LET o == LastStoreOutput(output_object, UploadBranch(upload), upload,
                                asset_id, job_id)
       IN IF LastStoreReturns(UploadBranch(upload))
          THEN Finish(o, Returned(o))
          ELSE Finish(o, Raised(o))
    /\ UNCHANGED << event, queries, responses, previous, invocations,
                    observed, others >>

\* lines 70, 96, 98 when the dataplane call raises: nothing catches it.
StoreRaises ==
    /\ pc \in {"store_page", "store_last"}
    /\ writes' = Append(writes,
                   IF pc = "store_page"
                   THEN PageWrite(asset_id, workflow_id, response)
                   ELSE LastWrite(asset_id, workflow_id, response, is_paginated))
    /\ Escape
    /\ UNCHANGED << event, queries, responses, uploads, previous, invocations,
                    observed, others >>

\* ------------------------------------------------------- the specification
Next ==
    \/ \E e \in NextEvents : InvokeMissingKey(e) /\ UNCHANGED observed
    \/ \E e \in NextEvents : InvokeAlreadyComplete(e) /\ UNCHANGED observed
    \/ \E e \in NextEvents : InvokeMissingMetadataKey(e) /\ UNCHANGED observed
    \/ \E e \in NextEvents : InvokeStart(e) /\ UNCHANGED observed
    \/ PollRaises
    \/ \E resp \in Responses : PollInProgress(resp)
    \/ \E resp \in Responses : PollFailed(resp)
    \/ \E resp \in Responses : PollSucceededPage(resp)
    \/ \E resp \in Responses : PollSucceededLast(resp)
    \/ \E resp \in Responses : PollUnknown(resp)
    \/ \E upload \in Uploads : StorePage(upload)
    \/ \E upload \in Uploads : StoreLast(upload)
    \/ StoreRaises

Spec == Init /\ [][Next]_vars

\* ------------------------------------------- two invocations compared
\* What the claims about remote responses look at: the JobStatus and
\* whether a NextToken came with it.
ResponseShape(resp) ==
    [JobStatus |-> resp.JobStatus, NextToken |-> HasNextToken(resp)]

Shapes(rs) == [i \in 1..Len(rs) |-> ResponseShape(rs[i])]

\* The events that pass lines 28-45 and reach the pagination loop.
ValidEvents ==
    { e \in Events :
        FirstKeyError(e) = "" /\ ~AlreadyComplete(e) /\ SecondKeyError(e) = "" }

\* One of two invocations with valid inputs that are not Complete; the
\* second remembers what the first was answered.
\* The pages the invocation has written: the i-th write is the write of the
\* page that the i-th query asked for, a page of the job of the event.
WrittenPages ==
    [i \in 1..Len(writes) |->
        [job |-> event.MetaData.ContentModerationJobId,
         cursor |-> queries[i].NextToken]]

PairInvoke(e) ==
    /\ invocations < 2
    /\ InvokeStart(e)
    /\ observed' = [responses |-> Shapes(responses), uploads |-> uploads,
                    pages |-> WrittenPages]

PairNext ==
    \/ \E e \in ValidEvents : PairInvoke(e)
    \/ PollRaises
    \/ \E resp \in Responses : PollInProgress(resp)
    \/ \E resp \in Responses : PollFailed(resp)
    \/ \E resp \in Responses : PollSucceededPage(resp)
    \/ \E resp \in Responses : PollSucceededLast(resp)
    \/ \E resp \in Responses : PollUnknown(resp)
    \/ \E upload \in Uploads : StorePage(upload)
    \/ \E upload \in Uploads : StoreLast(upload)
    \/ StoreRaises

SpecPair == Init /\ [][PairNext]_vars

\* ------------------------------------------------------- one job, polled
\* One job polled to its end: the orchestrator invokes the handler with a
\* valid event and invokes it again, with the output it returned, whenever
\* that output says Executing. The remote job stops reporting IN_PROGRESS:
\* the last invocation the bound admits gets another status.
JobResponses ==
    IF invocations < MaxInvocations
    THEN Responses
    ELSE { resp \in Responses : resp.JobStatus # "IN_PROGRESS" }

JobStart(e) ==
    /\ invocations = 0
    /\ InvokeStart(e)
    /\ UNCHANGED observed

JobReinvoke ==
    /\ result.kind = "return"
    /\ result.output.Status = "Executing"
    /\ InvokeStart(FeedBack(result.output))
    /\ UNCHANGED observed

JobNext ==
    \/ \E e \in ValidEvents : JobStart(e)
    \/ JobReinvoke
    \/ PollRaises
    \/ \E resp \in JobResponses : PollInProgress(resp)
    \/ \E resp \in JobResponses : PollFailed(resp)
    \/ \E resp \in JobResponses : PollSucceededPage(resp)
    \/ \E resp \in JobResponses : PollSucceededLast(resp)
    \/ \E resp \in JobResponses : PollUnknown(resp)
    \/ \E upload \in Uploads : StorePage(upload)
    \/ \E upload \in Uploads : StoreLast(upload)
    \/ StoreRaises

\* The handler runs to its end once invoked, and the orchestrator's timer
\* invokes it again while the job is Executing.
LiveSpec == Init /\ [][JobNext]_vars /\ WF_vars(JobNext)

\* ==================================================== generic data lookup
\* S3 keys and file names are sequences of pieces: the separators "/" and
\* "." stand for themselves, every other piece is text without separators.
MediaKeys ==
    { << "v", ".", "mp4" >>,
      << "d", "/", "v", ".", "mp4" >>,
      << "a", ".", "b", ".", "mp4" >>,
      << "v" >>,
      << "d", ".", "x", "/", "v" >> }

Filenames == { << "m", ".", "json" >> }

Buckets == {"b1", "b2"}

MediaTypes == {"Video", "Audio", "Image", "Text"}

MediaEntries ==
    { [S3Bucket |-> "b1", S3Key |-> k] : k \in MediaKeys }
    \cup { [S3Bucket |-> "b1"], [S3Key |-> << "v", ".", "mp4" >>] }

\* The Media mappings of an input: none of the four types, one of them, or
\* two of them.
Medias ==
    { EmptyDict, [Other |-> [S3Bucket |-> "b1", S3Key |-> << "v", ".", "mp4" >>]] }
    \cup { t :> en : t \in MediaTypes, en \in MediaEntries }
    \cup { [Video |-> [S3Bucket |-> "b1", S3Key |-> << "v", ".", "mp4" >>],
           Audio |-> [S3Bucket |-> "b2", S3Key |-> << "a", ".", "b", ".", "mp4" >>]],
          [Audio |-> [S3Bucket |-> "b2", S3Key |-> << "v" >>],
           Text |-> [S3Bucket |-> "b1"]] }

LookupEvents ==
    { top @@ [Input |-> inp, Configuration |-> cfg] :
        top \in { EmptyDict, [WorkflowExecutionId |-> "w1"], [AssetId |-> "a1"],
                  [WorkflowExecutionId |-> "w1", AssetId |-> "a1"] },
        inp \in { EmptyDict } \cup { [Media |-> m] : m \in Medias },
        cfg \in { EmptyDict } \cup { [Filename |-> f] : f \in Filenames } }

\* The bodies S3 may hand out.
Bodies == { "{}", "{\"k\": 1}", "[1]", "\"s\"", "7", "null", "not json", "" }

ReadErrors == { "NoSuchKey" }

\* json.loads on the bodies above: whether it returns, the Python type of the
\* value, the value when it is a dict, and the text of the error otherwise.
json_loads(body) ==
    CASE body = "{}" -> [ok |-> TRUE, type |-> "dict", value |-> EmptyDict, error |-> ""]
      [] body = "{\"k\": 1}" -> [ok |-> TRUE, type |-> "dict", value |-> [k |-> 1], error |-> ""]
      [] body = "[1]" -> [ok |-> TRUE, type |-> "list", value |-> EmptyDict, error |-> ""]
      [] body = "\"s\"" -> [ok |-> TRUE, type |-> "str", value |-> EmptyDict, error |-> ""]
      [] body = "7" -> [ok |-> TRUE, type |-> "int", value |-> EmptyDict, error |-> ""]
      [] body = "null" -> [ok |-> TRUE, type |-> "NoneType", value |-> EmptyDict, error |-> ""]
      [] OTHER -> [ok |-> FALSE, type |-> "", value |-> EmptyDict,
                   error |-> "Expecting value: line 1 column 1 (char 0)"]

\* Where the piece sep occurs in the sequence seq.
Positions(seq, sep) == { i \in 1..Len(seq) : seq[i] = sep }

Last(P) == CHOOSE i \in P : \A j \in P : j <= i

\* line 74: key.split("/")[-1]
media_filename(key) ==
    LET P == Positions(key, "/")
    IN IF P = {} THEN key ELSE SubSeq(key, Last(P) + 1, Len(key))

\* line 75: '.'.join(name.split(".")[:-1]) + ".json"; a name without "."
\* splits into one piece, and all but the last of one piece is nothing.
JoinedStem(name) ==
    LET P == Positions(name, ".")
    IN IF P = {} THEN << >> ELSE SubSeq(name, 1, Last(P) - 1)

\* lines 71-75
metadata_filename(configuration, key) ==
    IF Has(configuration, "Filename")
    THEN configuration.Filename
    ELSE JoinedStem(media_filename(key)) \o << ".", "json" >>

\* lines 47-62: the media type whose entry is read, "" when none of the four
\* is in the mapping.
ChosenType(media) ==
    IF Has(media, "Video") THEN "Video"
    ELSE IF Has(media, "Audio") THEN "Audio"
    ELSE IF Has(media, "Image") THEN "Image"
    ELSE IF Has(media, "Text") THEN "Text"
    ELSE ""

\* lines 44-63: some statement of the try block raises.
InputError(e) ==
    IF ~Has(e, "WorkflowExecutionId") THEN TRUE
    ELSE IF ~Has(e, "AssetId") THEN TRUE
    ELSE IF ~Has(e.Input, "Media") THEN TRUE
    ELSE IF ChosenType(e.Input.Media) = "" THEN FALSE
    ELSE IF ~Has(e.Input.Media[ChosenType(e.Input.Media)], "S3Bucket") THEN TRUE
    ELSE ~Has(e.Input.Media[ChosenType(e.Input.Media)], "S3Key")

\* Variant: a list is accepted like a dict.
IsDict_OrList(parsed) == parsed.type \in {"dict", "list"}

\* line 89
IsDict(parsed) == parsed.type = "dict"

\* str(type(x))
TypeRepr(parsed) == << "<class '", parsed.type, "'>" >>

\* Variant: any answer that has a Status counts as a success.
LookupUploadBranch_AnyStatus(upload) ==
    IF ~Has(upload, "Status") THEN "no_status" ELSE "success"

\* lines 101-116: the branch a store answer takes.
LookupUploadBranch(upload) ==
    IF ~Has(upload, "Status") THEN "no_status"
    ELSE IF upload.Status = "Success" THEN "success"
    ELSE "other"

\* return_output_object of the operation helper.
LookupOutput(o) == [Status |-> o.status, MetaData |-> o.metadata]

LookupReturned(o) == [kind |-> "return", output |-> LookupOutput(o)]

LookupRaised(o) == [kind |-> "raise", output |-> LookupOutput(o)]

\* line 65
NoValidInputsMessage == << "No valid inputs" >>

\* lines 64-66, 84-86, 90-93
LookupError(o, message) ==
    add_workflow_metadata(update_workflow_status(o, "Error"),
                          [GenericDataLookupError |-> message])

\* lines 42-66: the try block raises.
LookupInvalid(e) ==
    /\ lookup.pc = "idle"
    /\ InputError(e)
    /\ LET o == LookupError(NoLookup.operator_object, NoValidInputsMessage)
       IN lookup' = [NoLookup EXCEPT !.event = e, !.operator_object = o,
                                     !.result = LookupRaised(o)]
    /\ UNCHANGED << adapter, logger >>

\* lines 42-69: no branch of lines 47-62 is taken, bucket and key are not
\* bound, and line 69 raises UnboundLocalError, which nothing catches.
LookupUnbound(e) ==
    /\ lookup.pc = "idle"
    /\ ~InputError(e)
    /\ ChosenType(e.Input.Media) = ""
    /\ lookup' = [NoLookup EXCEPT !.event = e, !.asset_id = e.AssetId,
                                  !.workflow_id = e.WorkflowExecutionId,
                                  !.result = Escaped]
    /\ UNCHANGED << adapter, logger >>

\* lines 42-81: the inputs are read and the document is asked for.
LookupStart(e) ==
    /\ lookup.pc = "idle"
    /\ ~InputError(e)
    /\ ChosenType(e.Input.Media) # ""
    /\ LET en == e.Input.Media[ChosenType(e.Input.Media)]
           name == metadata_filename(e.Configuration, en.S3Key)
       IN lookup' = [NoLookup EXCEPT
                        !.pc = "read", !.event = e,
                        !.asset_id = e.AssetId,
                        !.workflow_id = e.WorkflowExecutionId,
                        !.bucket = en.S3Bucket, !.key = en.S3Key,
                        !.metadata_filename = name,
                        !.reads = << [Bucket |-> en.S3Bucket, Key |-> name] >>]
    /\ UNCHANGED << adapter, logger >>

\* lines 81, 83-86: s3.get_object raises.
LookupReadRaises(err) ==
    /\ lookup.pc = "read"
    /\ LET o == LookupError(lookup.operator_object,
                            << "Unable read datafile. ", err >>)
       IN lookup' = [lookup EXCEPT !.pc = "idle",
                                   !.fetched = [kind |-> "error", body |-> err],
                                   !.operator_object = o,
                                   !.result = LookupRaised(o)]
    /\ UNCHANGED << adapter, logger >>

\* lines 82-86: json.loads raises.
LookupUnparsable(body) ==
    /\ lookup.pc = "read"
    /\ ~json_loads(body).ok
    /\ LET o == LookupError(lookup.operator_object,
                            << "Unable read datafile. ", json_loads(body).error >>)
       IN lookup' = [lookup EXCEPT !.pc = "idle",
                                   !.fetched = [kind |-> "body", body |-> body],
                                   !.operator_object = o,
                                   !.result = LookupRaised(o)]
    /\ UNCHANGED << adapter, logger >>

\* lines 82, 89-93
LookupNotDict(body) ==
    /\ lookup.pc = "read"
    /\ json_loads(body).ok
    /\ ~IsDict(json_loads(body))
    /\ LET o == LookupError(lookup.operator_object,
                            << "Metadata must be of type dict. Found ",
                               TypeRepr(json_loads(body)), " instead." >>)
       IN lookup' = [lookup EXCEPT !.pc = "idle",
                                   !.fetched = [kind |-> "body", body |-> body],
                                   !.operator_object = o,
                                   !.result = LookupRaised(o)]
    /\ UNCHANGED << adapter, logger >>

\* lines 82, 89, 96-98: the document is a dict and is written to the store.
LookupWrite(body) ==
    /\ lookup.pc = "read"
    /\ json_loads(body).ok
    /\ IsDict(json_loads(body))
    /\ lookup' = [lookup EXCEPT
                     !.pc = "store",
                     !.fetched = [kind |-> "body", body |-> body],
                     !.metadata_json = json_loads(body).value,
                     !.operator_object =
                         add_workflow_metadata(lookup.operator_object,
                             [AssetId |-> lookup.asset_id,
                              WorkflowExecutionId |-> lookup.workflow_id]),
                     !.writes = Append(lookup.writes,
                                    [asset_id |-> lookup.asset_id,
                                     workflow_id |-> lookup.workflow_id,
                                     results |-> json_loads(body).value])]
    /\ UNCHANGED << adapter, logger >>

\* lines 101-116
LookupStored(upload) ==
    /\ lookup.pc = "store"
    /\ LET o == IF LookupUploadBranch(upload) = "success"
                THEN update_workflow_status(lookup.operator_object, "Complete")
                ELSE update_workflow_status(
                         add_workflow_metadata(lookup.operator_object,
                             [GenericDataLookupError |->
                                 UploadErrorMessage(lookup.asset_id)]),
                         "Error")
       IN lookup' = [lookup EXCEPT
                        !.pc = "idle", !.operator_object = o,
                        !.uploads = Append(lookup.uploads, upload),
                        !.result = IF LookupUploadBranch(upload) = "success"
                                   THEN LookupReturned(o) ELSE LookupRaised(o)]
    /\ UNCHANGED << adapter, logger >>

\* line 98 when the store client raises: nothing catches it.
LookupStoreRaises ==
    /\ lookup.pc = "store"
    /\ lookup' = [lookup EXCEPT !.pc = "idle", !.result = Escaped]
    /\ UNCHANGED << adapter, logger >>

LookupNext ==
    \/ \E e \in LookupEvents : LookupInvalid(e)
    \/ \E e \in LookupEvents : LookupUnbound(e)
    \/ \E e \in LookupEvents : LookupStart(e)
    \/ \E err \in ReadErrors : LookupReadRaises(err)
    \/ \E body \in Bodies : LookupUnparsable(body)
    \/ \E body \in Bodies : LookupNotDict(body)
    \/ \E body \in Bodies : LookupWrite(body)
    \/ \E upload \in Uploads : LookupStored(upload)
    \/ LookupStoreRaises

SpecLookup == Init /\ [][LookupNext]_vars

\* =================================================== anonymous data logger
RequestTypes == {"Create", "Update", "Delete"}

Resources == {"UUID", "AnonymousMetric", "Other"}

UUIDs == {"u1", "u2"}

\* The ResourceProperties CloudFormation may pass.
Properties ==
    { res @@ tok @@ extra :
        res \in { EmptyDict } \cup { [Resource |-> x] : x \in Resources },
        tok \in { EmptyDict, [ServiceToken |-> "arn:lambda:account"] },
        extra \in { EmptyDict, [SolutionId |-> "s1"], [Version |-> "v1"],
                    [SolutionId |-> "s1", Version |-> "v1"] } }

LoggerEvents ==
    { req @@ props :
        req \in { EmptyDict } \cup { [RequestType |-> r] : r \in RequestTypes },
        props \in { EmptyDict } \cup { [ResourceProperties |-> p] : p \in Properties } }

\* dict.pop(k, None)
Pop(d, k) == [x \in DOMAIN d \ {k} |-> d[x]]

\* Variant: the ServiceToken is left in the configuration.
config_KeepsServiceToken(e) ==
    [CFTemplate |-> << e.RequestType, "d" >>] @@ Pop(e.ResourceProperties, "Resource")

\* lines 35-42: the configuration after the two pops and the added field.
config(e) ==
    [CFTemplate |-> << e.RequestType, "d" >>]
        @@ Pop(Pop(e.ResourceProperties, "ServiceToken"), "Resource")

\* lines 33-34: one of the lookups raises KeyError.
LoggerKeyError(e) ==
    IF ~Has(e, "RequestType") THEN TRUE
    ELSE IF ~Has(e, "ResourceProperties") THEN TRUE
    ELSE ~Has(e.ResourceProperties, "Resource")

\* What cfn.send is called with.
Sent(status, data, id) == [status |-> status, data |-> data, id |-> id]

\* lines 57, 72
SentFailed == Sent("FAILED", EmptyDict, "log_stream_name")

\* lines 33-34, 70-72
LoggerFails(e) ==
    /\ LoggerKeyError(e)
    /\ logger' = [handled |-> TRUE, event |-> e, send_raised |-> FALSE,
                  metrics |-> << >>,
                  responses |-> << SentFailed >>]
    /\ UNCHANGED << adapter, lookup >>

\* lines 33-49, 59
LoggerCreateUUID(e, u) ==
    /\ ~LoggerKeyError(e)
    /\ e.RequestType = "Create"
    /\ e.ResourceProperties.Resource = "UUID"
    /\ logger' = [handled |-> TRUE, event |-> e, send_raised |-> FALSE,
                  metrics |-> << >>,
                  responses |-> << Sent("SUCCESS", [UUID |-> u], u) >>]
    /\ UNCHANGED << adapter, lookup >>

\* lines 33-46, 51-53, 59
LoggerCreateMetric(e) ==
    /\ ~LoggerKeyError(e)
    /\ e.RequestType = "Create"
    /\ e.ResourceProperties.Resource = "AnonymousMetric"
    /\ logger' = [handled |-> TRUE, event |-> e, send_raised |-> FALSE,
                  metrics |-> << config(e) >>,
                  responses |-> << Sent("SUCCESS", EmptyDict, "Metrics Sent") >>]
    /\ UNCHANGED << adapter, lookup >>

\* lines 33-46, 51-52, 70-72: Metrics.send_metrics raises.
LoggerMetricRaises(e) ==
    /\ ~LoggerKeyError(e)
    /\ e.RequestType = "Create"
    /\ e.ResourceProperties.Resource = "AnonymousMetric"
    /\ logger' = [handled |-> TRUE, event |-> e, send_raised |-> TRUE,
                  metrics |-> << config(e) >>,
                  responses |-> << SentFailed >>]
    /\ UNCHANGED << adapter, lookup >>

\* Variant: after the FAILED of line 57 the SUCCESS of line 59 is sent too.
LoggerCreateOther_ThenSuccess(e) ==
    /\ ~LoggerKeyError(e)
    /\ e.RequestType = "Create"
    /\ e.ResourceProperties.Resource \notin {"UUID", "AnonymousMetric"}
    /\ logger' = [handled |-> TRUE, event |-> e, send_raised |-> FALSE,
                  metrics |-> << >>,
                  responses |-> << SentFailed, Sent("SUCCESS", EmptyDict, "None") >>]
    /\ UNCHANGED << adapter, lookup >>

\* lines 33-46, 55-59, 70-72: FAILED is sent, then line 59 reads id, which
\* no branch has bound; the UnboundLocalError is caught and FAILED is sent
\* once more.
LoggerCreateOther(e) ==
    /\ ~LoggerKeyError(e)
    /\ e.RequestType = "Create"
    /\ e.ResourceProperties.Resource \notin {"UUID", "AnonymousMetric"}
    /\ logger' = [handled |-> TRUE, event |-> e, send_raised |-> FALSE,
                  metrics |-> << >>,
                  responses |-> << SentFailed, SentFailed >>]
    /\ UNCHANGED << adapter, lookup >>

\* Variant: a Delete is answered like an unknown resource, with FAILED.
LoggerDelete_Failed(e) ==
    /\ ~LoggerKeyError(e)
    /\ e.RequestType = "Delete"
    /\ logger' = [handled |-> TRUE, event |-> e, send_raised |-> FALSE,
                  metrics |-> << >>, responses |-> << SentFailed >>]
    /\ UNCHANGED << adapter, lookup >>

\* lines 33-44, 61-65
LoggerDelete(e) ==
    /\ ~LoggerKeyError(e)
    /\ e.RequestType = "Delete"
    /\ logger' = [handled |-> TRUE, event |-> e, send_raised |-> FALSE,
                  metrics |-> << >>,
                  responses |-> << Sent("SUCCESS", EmptyDict, "None") >>]
    /\ UNCHANGED << adapter, lookup >>

\* lines 33-44, 67-68: nothing is sent.
LoggerUnsupported(e) ==
    /\ ~LoggerKeyError(e)
    /\ e.RequestType \notin {"Create", "Delete"}
    /\ logger' = [handled |-> TRUE, event |-> e, send_raised |-> FALSE,
                  metrics |-> << >>,
                  responses |-> << >>]
    /\ UNCHANGED << adapter, lookup >>

LoggerNext ==
    \/ \E e \in LoggerEvents : LoggerFails(e)
    \/ \E e \in LoggerEvents, u \in UUIDs : LoggerCreateUUID(e, u)
    \/ \E e \in LoggerEvents : LoggerCreateMetric(e)
    \/ \E e \in LoggerEvents : LoggerMetricRaises(e)
    \/ \E e \in LoggerEvents : LoggerCreateOther(e)
    \/ \E e \in LoggerEvents : LoggerDelete(e)
    \/ \E e \in LoggerEvents : LoggerUnsupported(e)

SpecLogger == Init /\ [][LoggerNext]_vars

\* ------------------------------------------------------------ vocabulary
\* An invocation has been made and has ended.
Done == pc = "idle" /\ invocations > 0

EndedWithError == result.kind = "raise" /\ result.output.Status = "Error"

ReturnedWith(status) == result.kind = "return" /\ result.output.Status = status

NoRemoteCall == queries = << >>

NoStoreWrite == writes = << >>

ObservedAt(i, status) == i \in 1..Len(responses) /\ responses[i].JobStatus = status

LacksStatus(e) == "Status" \notin DOMAIN e

LacksMeta(e, k) == "MetaData" \notin DOMAIN e \/ k \notin DOMAIN e.MetaData

LacksRequiredKey(e) ==
    \/ LacksStatus(e)
    \/ LacksMeta(e, "AssetId")
    \/ LacksMeta(e, "ContentModerationJobId")
    \/ LacksMeta(e, "WorkflowExecutionId")

StatusIsComplete(e) == ~LacksStatus(e) /\ e.Status = "Complete"

\* ---------------------------------------------------------------- C1
\* C1 as claimed: an invocation whose event lacks any of Status,
\* MetaData.AssetId, MetaData.ContentModerationJobId and
\* MetaData.WorkflowExecutionId ends with Error, without a remote query and
\* without a metadata write.
C1_MissingAnyKeyIsError ==
    (invocations > 0 /\ LacksRequiredKey(event))
        => (Done /\ EndedWithError /\ NoRemoteCall /\ NoStoreWrite)

\* C1 amended: an event that lacks Status or MetaData.AssetId, or whose
\* Status is not Complete and that lacks MetaData.ContentModerationJobId or
\* MetaData.WorkflowExecutionId, ends with Error, without a remote query and
\* without a metadata write.
C1_MissingKeyIsError ==
    (/\ invocations > 0
     /\ \/ LacksStatus(event)
        \/ LacksMeta(event, "AssetId")
        \/ /\ ~StatusIsComplete(event)
           /\ \/ LacksMeta(event, "ContentModerationJobId")
              \/ LacksMeta(event, "WorkflowExecutionId"))
        => (Done /\ EndedWithError /\ NoRemoteCall /\ NoStoreWrite)

C1_Witness ==
    /\ Done
    /\ ~LacksStatus(event) /\ event.Status = "Executing"
    /\ ~LacksMeta(event, "AssetId")
    /\ ~LacksMeta(event, "ContentModerationJobId")
    /\ LacksMeta(event, "WorkflowExecutionId")
    /\ EndedWithError

\* ---------------------------------------------------------------- C2
\* C2 as claimed: every event whose Status is Complete is answered with
\* Complete, without a remote query and without a metadata write.
C2_CompleteInputShortCircuits ==
    (invocations > 0 /\ StatusIsComplete(event))
        => (Done /\ ReturnedWith("Complete") /\ NoRemoteCall /\ NoStoreWrite)

\* C2 amended: every event whose Status is Complete and that carries
\* MetaData.AssetId is answered with Complete, without a remote query and
\* without a metadata write.
C2_CompleteInputWithAssetShortCircuits ==
    (invocations > 0 /\ StatusIsComplete(event) /\ ~LacksMeta(event, "AssetId"))
        => (Done /\ ReturnedWith("Complete") /\ NoRemoteCall /\ NoStoreWrite)

C2_Witness ==
    /\ Done
    /\ StatusIsComplete(event)
    /\ ~LacksMeta(event, "AssetId")
    /\ LacksMeta(event, "ContentModerationJobId")
    /\ ReturnedWith("Complete")

\* ---------------------------------------------------------------- C3
\* C3 as claimed: when the remote service reports IN_PROGRESS on any query
\* of the loop, the output is Executing and the invocation has made no
\* metadata write.
C3_InProgressNoWriteAtAll ==
    (\E i \in 1..Len(responses) : ObservedAt(i, "IN_PROGRESS"))
        => (Done /\ ReturnedWith("Executing") /\ NoStoreWrite)

\* C3 amended: when the remote service reports IN_PROGRESS on any query of
\* the loop, the output is Executing and no metadata write is made for that
\* response or after it (the pages answered before it have been written);
\* when it is the first response, the invocation has made no write.
C3_InProgressIsExecuting ==
    \A i \in 1..Len(responses) :
        ObservedAt(i, "IN_PROGRESS")
            => /\ Done
               /\ ReturnedWith("Executing")
               /\ i = Len(responses)
               /\ Len(writes) = i - 1
               /\ (i = 1 => NoStoreWrite)

C3_Witness ==
    /\ Done
    /\ Len(responses) = 2
    /\ ObservedAt(2, "IN_PROGRESS")
    /\ ReturnedWith("Executing")
    /\ Len(writes) = 1

\* ---------------------------------------------------------------- C4
\* C4 as claimed: when the remote service reports FAILED, the invocation
\* has persisted nothing and ends with Error, the error metadata being the
\* remote StatusMessage.
C4_FailedPersistsNothing ==
    (\E i \in 1..Len(responses) : ObservedAt(i, "FAILED"))
        => (/\ Done /\ EndedWithError /\ NoStoreWrite
            /\ result.output.MetaData.ContentModerationError
                 = << responses[Len(responses)].StatusMessage >>)

\* C4 amended: when the remote service reports FAILED, the invocation ends
\* with Error, the error metadata being the remote StatusMessage, and no
\* metadata write is made for that response or after it; when it is the
\* first response, the invocation has persisted nothing.
C4_FailedIsError ==
    \A i \in 1..Len(responses) :
        ObservedAt(i, "FAILED")
            => /\ Done
               /\ EndedWithError
               /\ result.output.MetaData.ContentModerationError
                    = << responses[i].StatusMessage >>
               /\ i = Len(responses)
               /\ Len(writes) = i - 1
               /\ (i = 1 => NoStoreWrite)

C4_Witness ==
    /\ Done
    /\ Len(responses) = 2
    /\ ObservedAt(2, "FAILED")
    /\ responses[2].StatusMessage = "m2"
    /\ EndedWithError
    /\ Len(writes) = 1

\* ---------------------------------------------------------------- C5
\* The remote service has answered with a SUCCEEDED result of n pages (the
\* first n-1 responses carry NextToken, the n-th does not) and every write
\* has returned Success.
SucceededPages(n) ==
    /\ Done
    /\ n >= 1
    /\ Len(responses) = n
    /\ \A i \in 1..n : responses[i].JobStatus = "SUCCEEDED"
    /\ \A i \in 1..(n - 1) : "NextToken" \in DOMAIN responses[i]
    /\ "NextToken" \notin DOMAIN responses[n]
    /\ Len(uploads) = Len(writes)
    /\ \A i \in 1..Len(uploads) : uploads[i] = [Status |-> "Success"]

\* C5 as claimed: for every N >= 1, a SUCCEEDED result of N pages whose
\* writes all succeed is written in exactly N writes, one per page in page
\* order, the first N-1 with end=False and the last with end=True, and the
\* invocation returns Complete.
C5_EveryLastPageMarkedFinal ==
    \A n \in 1..MaxPages :
        SucceededPages(n)
            => /\ Len(writes) = n
               /\ \A i \in 1..n : writes[i].results = responses[i]
               /\ \A i \in 1..(n - 1) : writes[i].end = "False"
               /\ writes[n].end = "True"
               /\ ReturnedWith("Complete")

\* C5 amended: for every N >= 1, a SUCCEEDED result of N pages whose writes
\* all succeed is written in exactly N writes, one per page in page order,
\* and the invocation returns Complete; for N >= 2 every write is paginated,
\* the first N-1 with end=False and the last with end=True; for N = 1 the
\* single write passes neither paginate nor end.
C5_OneWritePerPage ==
    \A n \in 1..MaxPages :
        SucceededPages(n)
            => /\ Len(writes) = n
               /\ \A i \in 1..n : writes[i].results = responses[i]
               /\ \A i \in 1..(n - 1) :
                     writes[i].paginate = "True" /\ writes[i].end = "False"
               /\ n >= 2 => (writes[n].paginate = "True" /\ writes[n].end = "True")
               /\ n = 1 => (writes[n].paginate = "unset" /\ writes[n].end = "unset")
               /\ ReturnedWith("Complete")

C5_Witness ==
    /\ SucceededPages(MaxPages)
    /\ writes[MaxPages].end = "True"
    /\ responses[1] # responses[2]

\* ---------------------------------------------------------------- C6
\* C6: when a metadata write, of an intermediate page or of the last page,
\* returns a response without a Status field, the invocation ends with
\* Error, is not reported Complete, and makes no further write.
C6_NoStatusIsError ==
    \A i \in 1..Len(uploads) :
        "Status" \notin DOMAIN uploads[i]
            => /\ Done
               /\ EndedWithError
               /\ ~ReturnedWith("Complete")
               /\ i = Len(writes)

C6_Witness ==
    /\ Done
    /\ Len(uploads) = 2
    /\ "Status" \in DOMAIN uploads[1]
    /\ "Status" \notin DOMAIN uploads[2]
    /\ writes[2].end = "False"
    /\ EndedWithError

\* ---------------------------------------------------------------- C7
\* C7: Complete is returned after writes only if every write of the
\* invocation returned Status Success; a write that returns Failed or any
\* other Status ends the invocation with Error, and no later page is
\* requested or written.
C7_NoPartialSuccess ==
    /\ (Done /\ ReturnedWith("Complete"))
          => /\ Len(uploads) = Len(writes)
             /\ \A i \in 1..Len(uploads) :
                   "Status" \in DOMAIN uploads[i] /\ uploads[i].Status = "Success"
    /\ \A i \in 1..Len(uploads) :
          ("Status" \in DOMAIN uploads[i] /\ uploads[i].Status # "Success")
             => /\ Done
                /\ EndedWithError
                /\ i = Len(writes)
                /\ i = Len(queries)

C7_Witness ==
    /\ Done
    /\ Len(uploads) = 1
    /\ uploads[1] = [Status |-> "Unknown"]
    /\ writes[1].end = "False"
    /\ Len(queries) = 1
    /\ EndedWithError

\* ---------------------------------------------------------------- C8
\* C8: a remote JobStatus other than IN_PROGRESS, FAILED and SUCCEEDED ends
\* the invocation with Error and the message "Unable to determine status",
\* and no metadata write is made for that response.
C8_UnknownStatusIsError ==
    \A i \in 1..Len(responses) :
        responses[i].JobStatus \notin {"IN_PROGRESS", "FAILED", "SUCCEEDED"}
            => /\ Done
               /\ EndedWithError
               /\ result.output.MetaData.ContentModerationError
                    = << "Unable to determine status" >>
               /\ i = Len(responses)
               /\ Len(writes) = i - 1

C8_Witness ==
    /\ Done
    /\ Len(responses) = 1
    /\ responses[1].JobStatus = "UNKNOWN"
    /\ EndedWithError
    /\ NoStoreWrite

\* ---------------------------------------------------------------- C9
\* C9: when the first remote response is SUCCEEDED without NextToken and the
\* store returns Status Success, the output is Complete and exactly one
\* write was made, addressed to the asset id of the input, the operator
\* name and the workflow id of the input.
C9_SinglePageCompletes ==
    (/\ Done
     /\ Len(responses) = 1
     /\ responses[1].JobStatus = "SUCCEEDED"
     /\ "NextToken" \notin DOMAIN responses[1]
     /\ uploads = << [Status |-> "Success"] >>)
        => /\ ReturnedWith("Complete")
           /\ Len(writes) = 1
           /\ writes[1].asset_id = event.MetaData.AssetId
           /\ writes[1].operator_name = operator_name
           /\ writes[1].workflow_id = event.MetaData.WorkflowExecutionId
           /\ writes[1].results = responses[1]

C9_Witness ==
    /\ Done
    /\ Len(responses) = 1
    /\ responses[1].JobStatus = "SUCCEEDED"
    /\ uploads = << [Status |-> "Success"] >>
    /\ event.MetaData.AssetId = "a2"
    /\ ReturnedWith("Complete")

\* ---------------------------------------------------------------- C10
\* C10: after an invocation has returned Complete, an invocation whose
\* event is that returned status object returns Complete again, without a
\* remote query and without a metadata write.
C10_ReinvocationIsComplete ==
    (/\ Done
     /\ previous.kind = "return"
     /\ previous.output.Status = "Complete"
     /\ event = FeedBack(previous.output))
        => (ReturnedWith("Complete") /\ NoRemoteCall /\ NoStoreWrite)

\* ---------------------------------------------------------------- C11
\* C11: Complete and Error are terminal: an invocation whose input carries
\* every required key with status Complete or Error, and that ends with an
\* output object, never produces a different output status.
C11_TerminalStatusIsKept ==
    (/\ Done
     /\ ~LacksRequiredKey(event)
     /\ event.Status \in {"Complete", "Error"}
     /\ result.kind \in {"return", "raise"})
        => result.output.Status = event.Status

\* ---------------------------------------------------------------- C12
\* Two invocations with valid inputs that are not Complete have both ended
\* with an output object, after the same sequence of remote responses
\* (JobStatus and NextToken presence).
SameRemoteResponses ==
    /\ Done
    /\ invocations = 2
    /\ previous.kind \in {"return", "raise"}
    /\ result.kind \in {"return", "raise"}
    /\ observed.responses = Shapes(responses)

\* C12 as claimed: two invocations with valid inputs that are not Complete
\* and that observe the same sequence of remote responses have the same
\* output status, whatever the metadata store returns.
C12_StatusFromRemoteAlone ==
    SameRemoteResponses => previous.output.Status = result.output.Status

\* C12 amended: two invocations with valid inputs that are not Complete,
\* that observe the same sequence of remote responses and whose metadata
\* writes get the same answers from the store have the same output status.
C12_StatusFromRemoteAndStore ==
    (SameRemoteResponses /\ observed.uploads = uploads)
        => previous.output.Status = result.output.Status

C12_Witness ==
    /\ SameRemoteResponses
    /\ observed.uploads = uploads
    /\ Len(responses) = 2
    /\ Len(uploads) = 2
    /\ previous.output.MetaData # result.output.MetaData
    /\ ReturnedWith("Complete")

\* ---------------------------------------------------------------- C13
\* C13: the pagination loop is bounded by the remote page count and retries
\* nothing: no query follows a response without NextToken, so a result of N
\* pages takes at most N queries; the k-th query asks for the token of the
\* (k-1)-th response and for no token twice; the i-th write is the write of
\* the i-th response, so each page is written at most once; this holds on
\* every path, store failures included.
C13_LoopBoundedByPages ==
    /\ Len(queries) <= MaxPages
    /\ Len(responses) <= Len(queries)
    /\ Len(queries) <= Len(responses) + 1
    /\ \A i \in 1..Len(responses) :
          "NextToken" \notin DOMAIN responses[i]
             => (i = Len(responses) /\ Len(queries) = i)
    /\ \A k \in 1..Len(queries) :
          queries[k].NextToken = IF k = 1 THEN "" ELSE responses[k - 1].NextToken
    /\ Len(writes) <= Len(responses)
    /\ \A i \in 1..Len(writes) : writes[i].results = responses[i]
    /\ \A i \in 1..Len(uploads) :
          uploads[i] # [Status |-> "Success"]
             => (Done /\ i = Len(writes) /\ i = Len(queries))

C13_Witness ==
    /\ Done
    /\ Len(queries) = MaxPages
    /\ Len(writes) = MaxPages
    /\ uploads[MaxPages] = [Status |-> "Failed"]
    /\ EndedWithError

\* ---------------------------------------------------------------- C14
\* The values the input event carries under MetaData.
EventMetaValues(e) ==
    IF Has(e, "MetaData") THEN { e.MetaData[k] : k \in DOMAIN e.MetaData } ELSE {}

\* C14: the output object of an invocation holds nothing of an earlier
\* invocation served by the same process: an error key is in the output
\* metadata only when this invocation ended with Error, and every id in the
\* output metadata is an id of this invocation's input event.
C14_NoStateAcrossInvocations ==
    (Done /\ result.kind \in {"return", "raise"})
        => \A k \in DOMAIN result.output.MetaData :
              IF k = "ContentModerationError"
              THEN result.output.Status = "Error"
              ELSE result.output.MetaData[k] \in EventMetaValues(event)

\* ---------------------------------------------------------------- C15
\* C15: every failure of an invocation is raised as the structured failure
\* object with status Error and an error message: no invocation ends with any
\* other exception, and whatever is raised carries status Error and the
\* message under ContentModerationError.
C15_EveryFailureIsStructured ==
    Done => /\ result.kind # "exception"
            /\ result.kind = "raise"
                  => /\ result.output.Status = "Error"
                     /\ Has(result.output.MetaData, "ContentModerationError")

\* ---------------------------------------------------------------- C16
\* The remote job succeeded and every write of its pages succeeded.
JobSucceeded ==
    /\ Len(responses) > 0
    /\ responses[Len(responses)].JobStatus = "SUCCEEDED"
    /\ ~HasNextToken(responses[Len(responses)])
    /\ Len(uploads) = Len(responses)
    /\ \A i \in 1..Len(uploads) : uploads[i] = [Status |-> "Success"]

\* The job has reached a terminal status: the last invocation returned
\* Complete when the remote job succeeded and all writes succeeded, and
\* raised the output object with status Error otherwise.
JobTerminal ==
    /\ Done
    /\ IF JobSucceeded
       THEN ReturnedWith("Complete")
       ELSE EndedWithError

\* C16: a job polled by the orchestrator, whose remote job stops reporting
\* IN_PROGRESS and has finitely many pages, eventually reaches a terminal
\* status and keeps it: Complete when the remote job succeeded and all writes
\* succeeded, Error otherwise; it does not stay Executing forever.
C16_JobReachesTerminalStatus == <>[]JobTerminal

\* ---------------------------------------------------------------- C17
\* An invocation of the generic data lookup has been made and has ended.
LookupDone == lookup.pc = "idle" /\ lookup.result.kind # "none"

\* A file name with its extension replaced by json: "v.mp4" gives "v.json",
\* and a name that has no extension gets one, "v" gives "v.json".
WithJsonExtension(name) ==
    LET P == Positions(name, ".")
    IN (IF P = {} THEN name ELSE SubSeq(name, 1, Last(P) - 1)) \o << ".", "json" >>

\* C17: the document is read from the media object's bucket, under the
\* configured Filename when there is one, and otherwise under the last path
\* segment of the media key with its extension replaced by json, for every
\* media key.
C17_ReadsNamedDocument ==
    \A i \in 1..Len(lookup.reads) :
        lookup.reads[i] =
            [Bucket |-> lookup.bucket,
             Key |-> IF Has(lookup.event.Configuration, "Filename")
                     THEN lookup.event.Configuration.Filename
                     ELSE WithJsonExtension(media_filename(lookup.key))]

\* ---------------------------------------------------------------- C18
\* The fetch failed, or what was fetched is not JSON or not a dict.
BadDocument ==
    \/ lookup.fetched.kind = "error"
    \/ /\ lookup.fetched.kind = "body"
       /\ \/ ~json_loads(lookup.fetched.body).ok
          \/ json_loads(lookup.fetched.body).type # "dict"

\* C18: a document that cannot be read or parsed as JSON, or that decodes to
\* anything but a dict, ends the invocation with status Error and an error
\* message, and no metadata-store write is made.
C18_BadDocumentIsErrorWithoutWrite ==
    BadDocument
        => /\ LookupDone
           /\ lookup.result.kind = "raise"
           /\ lookup.result.output.Status = "Error"
           /\ Has(lookup.result.output.MetaData, "GenericDataLookupError")
           /\ lookup.writes = << >>

C18_Witness ==
    /\ LookupDone
    /\ Len(lookup.reads) = 1
    /\ lookup.fetched = [kind |-> "body", body |-> "[1]"]
    /\ lookup.result.kind = "raise"
    /\ lookup.result.output.Status = "Error"
    /\ lookup.writes = << >>

\* ---------------------------------------------------------------- C19
\* The event lacks WorkflowExecutionId, AssetId, or a Media entry of one of
\* the four types with S3Bucket and S3Key.
LacksLookupInput(e) ==
    \/ ~Has(e, "WorkflowExecutionId")
    \/ ~Has(e, "AssetId")
    \/ ~Has(e.Input, "Media")
    \/ ~\E t \in MediaTypes :
           /\ Has(e.Input.Media, t)
           /\ Has(e.Input.Media[t], "S3Bucket")
           /\ Has(e.Input.Media[t], "S3Key")

\* C19: an event that lacks a required input, an event whose Media mapping
\* holds none of the four types included, ends with status Error and the
\* message "No valid inputs", without any read of the object store and
\* without any metadata-store write.
C19_InvalidInputIsError ==
    (LookupDone /\ LacksLookupInput(lookup.event))
        => /\ lookup.result.kind = "raise"
           /\ lookup.result.output.Status = "Error"
           /\ Has(lookup.result.output.MetaData, "GenericDataLookupError")
           /\ lookup.result.output.MetaData.GenericDataLookupError = NoValidInputsMessage
           /\ lookup.reads = << >>
           /\ lookup.writes = << >>

\* ---------------------------------------------------------------- C20
\* C20: whatever the incoming ResourceProperties hold, no configuration
\* passed to Metrics.send_metrics contains ServiceToken or Resource.
C20_MetricsLackTokenAndResource ==
    \A i \in 1..Len(logger.metrics) :
        /\ ~Has(logger.metrics[i], "ServiceToken")
        /\ ~Has(logger.metrics[i], "Resource")

C20_Witness ==
    /\ logger.handled
    /\ Has(logger.event, "ResourceProperties")
    /\ Has(logger.event.ResourceProperties, "ServiceToken")
    /\ Has(logger.event.ResourceProperties, "Resource")
    /\ Len(logger.metrics) = 1
    /\ Has(logger.metrics[1], "SolutionId")
    /\ Has(logger.metrics[1], "CFTemplate")

\* ---------------------------------------------------------------- C21
\* C21: the cursor only advances: the first query of an invocation carries
\* the empty token, and every later query carries the NextToken of the
\* response just before it, and is made only after that response has been
\* written to the store and the store has answered Success; while the loop
\* waits to query, the cursor variable is the token of the last response.
C21_CursorOnlyAdvances ==
    /\ \A k \in 1..Len(queries) :
          IF k = 1
          THEN queries[k].NextToken = ""
          ELSE /\ HasNextToken(responses[k - 1])
               /\ queries[k].NextToken = responses[k - 1].NextToken
               /\ Len(writes) >= k - 1
               /\ writes[k - 1].results = responses[k - 1]
               /\ uploads[k - 1] = [Status |-> "Success"]
    /\ pc = "poll"
          => pagination_token = IF responses = << >> THEN ""
                                ELSE responses[Len(responses)].NextToken

C21_Witness ==
    /\ Len(queries) = MaxPages
    /\ Len(responses) = MaxPages
    /\ queries[1].NextToken = ""
    /\ queries[2].NextToken # queries[MaxPages].NextToken
    /\ \A i \in 1..(MaxPages - 1) : uploads[i] = [Status |-> "Success"]

\* ---------------------------------------------------------------- C22
LookupComplete ==
    lookup.result.kind = "return" /\ lookup.result.output.Status = "Complete"

LookupEndedWithError ==
    lookup.result.kind = "raise" /\ lookup.result.output.Status = "Error"

\* C22: the generic data lookup makes at most one store write per
\* invocation; an ended invocation returned Complete exactly when that write
\* was answered with Status "Success"; an answer without Status or with any
\* other Status ended it with Error.
C22_CompleteIffWriteSucceeded ==
    /\ Len(lookup.writes) <= 1
    /\ Len(lookup.uploads) <= Len(lookup.writes)
    /\ LookupDone
          => /\ LookupComplete <=> lookup.uploads = << [Status |-> "Success"] >>
             /\ (/\ Len(lookup.uploads) = 1
                 /\ lookup.uploads[1] # [Status |-> "Success"])
                    => /\ LookupEndedWithError
                       /\ Has(lookup.result.output.MetaData, "GenericDataLookupError")

C22_Witness ==
    /\ LookupDone
    /\ LookupComplete
    /\ Len(lookup.writes) = 1
    /\ lookup.writes[1].results = [k |-> 1]
    /\ lookup.uploads = << [Status |-> "Success"] >>

\* ---------------------------------------------------------------- C23
\* The handler has run on a request of type request that names a Resource.
LoggerHandled(request) ==
    /\ logger.handled
    /\ ~LoggerKeyError(logger.event)
    /\ logger.event.RequestType = request

Statuses(rs) == { rs[i].status : i \in 1..Len(rs) }

\* C23: a Delete request, whatever Resource it names, is answered with one
\* SUCCESS response whose data is empty, and no metrics are sent.
C23_DeleteIsSuccessWithoutMetrics ==
    LoggerHandled("Delete")
        => /\ Len(logger.responses) = 1
           /\ logger.responses[1].status = "SUCCESS"
           /\ logger.responses[1].data = EmptyDict
           /\ logger.metrics = << >>

C23_Witness ==
    /\ LoggerHandled("Delete")
    /\ logger.event.ResourceProperties.Resource = "AnonymousMetric"
    /\ Has(logger.event.ResourceProperties, "ServiceToken")
    /\ Statuses(logger.responses) = {"SUCCESS"}

\* ---------------------------------------------------------------- C24
\* C24: a Create request for UUID is answered with one SUCCESS whose data
\* holds a generated UUID that is also the physical resource id; for
\* AnonymousMetric the metrics are sent exactly once, followed by one SUCCESS,
\* or by one FAILED and no SUCCESS when sending raised; for any other
\* resource a FAILED is sent and never a SUCCESS, and no metrics.
C24_CreateByResource ==
    LoggerHandled("Create")
        => CASE logger.event.ResourceProperties.Resource = "UUID" ->
                  /\ Len(logger.responses) = 1
                  /\ logger.responses[1].status = "SUCCESS"
                  /\ logger.responses[1].id \in UUIDs
                  /\ logger.responses[1].data = [UUID |-> logger.responses[1].id]
                  /\ logger.metrics = << >>
             [] logger.event.ResourceProperties.Resource = "AnonymousMetric" ->
                  /\ Len(logger.metrics) = 1
                  /\ Len(logger.responses) = 1
                  /\ logger.responses[1].status =
                        IF logger.send_raised THEN "FAILED" ELSE "SUCCESS"
             [] OTHER ->
                  /\ Statuses(logger.responses) = {"FAILED"}
                  /\ logger.metrics = << >>

C24_Witness ==
    /\ LoggerHandled("Create")
    /\ logger.event.ResourceProperties.Resource = "Other"
    /\ Len(logger.responses) = 2
    /\ Statuses(logger.responses) = {"FAILED"}

\* ---------------------------------------------------------------- C26
\* C26: every invocation of the handler sends exactly one response, SUCCESS
\* or FAILED, whatever the RequestType and the Resource, events that raise
\* an exception included.
C26_ExactlyOneResponse ==
    logger.handled
        => /\ Len(logger.responses) = 1
           /\ logger.responses[1].status \in {"SUCCESS", "FAILED"}

\* ---------------------------------------------------------------- C25
\* C25: when an invocation that failed, or was abandoned, after writing some
\* pages is retried fresh by the orchestrator, no page of the job that the
\* earlier invocation has written is written again (a page counts as written
\* when the store answered its write with Success).
C25_EachPageWrittenOnce ==
    (invocations = 2 /\ previous.kind \in {"raise", "exception"})
        => \A i \in 1..Len(observed.uploads), k \in 1..Len(uploads) :
              (/\ observed.uploads[i] = [Status |-> "Success"]
               /\ uploads[k] = [Status |-> "Success"])
                  => observed.pages[i] # WrittenPages[k]

\* ---------------------------------------------------------------- C27
\* C27: every Executing output is a valid input of the next poll: its
\* metadata carries ContentModerationJobId, AssetId and WorkflowExecutionId,
\* each equal to that of the input event, so the output fed back as the next
\* event passes both input validations and is not taken for a finished job.
C27_ExecutingOutputIsValidInput ==
    (Done /\ ReturnedWith("Executing"))
        => /\ \A k \in InputKeys :
                 /\ Has(result.output.MetaData, k)
                 /\ result.output.MetaData[k] = event.MetaData[k]
           /\ FirstKeyError(FeedBack(result.output)) = ""
           /\ ~AlreadyComplete(FeedBack(result.output))
           /\ SecondKeyError(FeedBack(result.output)) = ""

C27_Witness ==
    /\ Done
    /\ invocations = 2
    /\ previous.kind = "return"
    /\ previous.output.Status = "Executing"
    /\ event = FeedBack(previous.output)
    /\ ReturnedWith("Executing")
    /\ Len(queries) = 1

\* ---------------------------------------------------------------- C28
\* C28: an output that records the job id records it under the key
\* ContentModerationJobId, on the Complete path and on every Error path: no
\* output carries a key of another operator, LabelDetectionJobId or
\* PersonTrackingJobId.
C28_JobIdUnderOwnKey ==
    (Done /\ result.kind \in {"return", "raise"})
        => /\ ~Has(result.output.MetaData, "LabelDetectionJobId")
           /\ ~Has(result.output.MetaData, "PersonTrackingJobId")

====
